---- MODULE Spec2Model ----
(***************************************************************************)
(* AsyncLock (src/src/async-lock.ts): a keyed lock manager for asynchronous *)
(* tasks.  The model is a small-step machine of the manager's code.  All    *)
(* code of the manager runs to completion on one thread; the only places    *)
(* where foreign code runs in the middle of a manager function are the      *)
(* user's completion callback called by done() and the task body called by  *)
(* exec().  `stack` holds the pending work of the manager, innermost first: *)
(* a stored state either has an empty stack (the event loop is idle) or has *)
(* a "User" frame on top (a user completion callback is executing and may   *)
(* call back into the manager before it returns).                           *)
(***************************************************************************)
EXTENDS FiniteSets, Integers, Sequences, TLC

\* Program constants.
DEFAULT_TIMEOUT == 0
DEFAULT_MAX_PENDING == 1000

\* Bound on the number of acquire calls in the specification of failing
\* tasks, SpecTasks, and on the completion signals of one task.
MaxTaskAcq == 3
MaxSignals == 2

\* Bound on the number of acquire calls in the specification of per-call
\* timeouts, SpecTimeout.
MaxTimeoutAcq == 3

\* Bound on the number of acquire calls (single-key calls, including the
\* nested calls a batch makes) in one behaviour.
MaxAcq == 3

\* The same bound in the specification of batches, SpecBatch.
MaxBatchAcq == 4

Keys == {"a", "b"}

\* Values of an optional numeric option: Absent is undefined, Num(n) is n.
Absent == [has |-> FALSE, n |-> 0]
Num(n) == [has |-> TRUE, n |-> n]
TimeoutOpts == {Absent, Num(10)}
CtorTimeoutOpts == {Absent, Num(0), Num(20)}
CtorMaxPendingOpts == {Absent, Num(1)}

\* this._queue[key] === undefined
NoEntry == "noentry"

\* Task bodies (fn).  "cb_sync" and "cb_async" declare one parameter
\* (fn.length === 1): the first invokes its completion callback before it
\* returns, the second keeps it and invokes it later.  "val" declares none and
\* returns a value or promise.
\* Q.try calls a "val" task and nodeify calls done on later turns of
\* the event loop; no code of the manager runs between exec and the call of the
\* task, so the task counts as started from exec on.
CbTasks == {"cb_sync", "cb_async"}
TaskKinds == CbTasks \cup {"val"}

\* Tasks that fail, and a task argument that is not a function.  "cb_throw"
\* declares one parameter and throws before it invokes its completion
\* callback, "val_throw" declares none and throws synchronously, "notfn" is a
\* value for which typeof fn !== 'function'.
FailingTasks == {"cb_throw", "val_throw"}
NotAFunction == "notfn"
AllTasks == TaskKinds \cup FailingTasks \cup {NotAFunction}

\* Completion channel of an acquisition: "cb" a caller-supplied callback,
\* "promise" the deferred of lines 38-45 (or 164-171 for a batch), "inner"
\* the task callback of the enclosing acquisition of a batch chain.
UserSinks == {"cb", "promise"}

VARIABLES
    queue,        \* this._queue: key -> sequence of waiting acquisitions, or NoEntry
    timeoutCfg,   \* this._timeout
    maxPending,   \* this._maxPending
    acqs,         \* the acquisitions made so far, in call order (closure state of acquire)
    stack,        \* pending manager work, innermost first
    thrown,       \* the exception that escaped to the event loop, or "none"
    startLog,     \* per key, the acquisitions in the order their task bodies were invoked
    handoffLog    \* the acquisitions of batch chains in the order they handed their key off

vars == <<queue, timeoutCfg, maxPending, acqs, stack, thrown, startLog, handoffLog>>

\* x || y of JavaScript for the option values used here.
OrElse(x, y) == IF ~ x.has \/ x.n = 0 THEN y ELSE x.n

Ids == 1..Len(acqs)

Frame(op, a, locked, err) == [op |-> op, a |-> a, locked |-> locked, err |-> err]

\* A new acquisition: the closure variables of one acquire call (lines 38-50).
NewAcq(key, rest, fn, sink, parent, opt) ==
    [key |-> key,            \* the key of this call
     rest |-> rest,          \* keys still to acquire inside (batch chain), innermost last
     fn |-> fn,              \* the user's task
     sink |-> sink,          \* cb / deferred
     parent |-> parent,      \* enclosing acquisition of the chain, 0 if none
     opt |-> opt,            \* opts.timeout
     resolved |-> FALSE,
     timer |-> 0,            \* 0: timer === null, else the delay of the armed timer
     called |-> FALSE,       \* exec's `called`
     signals |-> 0,          \* invocations of the callback exec handed to the task
     started |-> 0,          \* invocations of the task body
     running |-> FALSE,      \* task body invoked, completion not yet signalled
     outs |-> <<>>]          \* outcomes delivered to the completion channel

\* The machine state the step functions work on.
St == [queue |-> queue, acqs |-> acqs, stack |-> stack, thrown |-> thrown,
       startLog |-> startLog, handoffLog |-> handoffLog]

Throw(s, e) == [s EXCEPT !.thrown = e, !.stack = <<>>]

PushFrames(s, fs) == [s EXCEPT !.stack = fs \o @]

\* a belongs to a batch chain.
InChain(r) == r.rest # <<>> \/ r.parent # 0

\* History: acquisition a hands its key off (removes the entry or starts the
\* next waiter).
LogHandoff(s, a, how) ==
    IF InChain(s.acqs[a])
    THEN [s EXCEPT !.handoffLog = Append(@, [a |-> a, how |-> how])]
    ELSE s

\* Mutant of acquire: the waiter is put at the head of the queue.
acquire_unshift(s, a) ==
    LET k == s.acqs[a].key IN
    IF s.acqs[a].rest = <<>> /\ s.acqs[a].fn = NotAFunction
    THEN Throw(s, "Error")
    ELSE IF s.queue[k] = NoEntry
    THEN PushFrames([s EXCEPT !.queue[k] = <<>>], <<Frame("Exec", a, TRUE, "none")>>)
    ELSE IF Len(s.queue[k]) >= maxPending
    THEN PushFrames(s, <<Frame("Done", a, FALSE, "TooMany")>>)
    ELSE [s EXCEPT !.queue[k] = <<a>> \o @,
                   !.acqs[a].timer = OrElse(s.acqs[a].opt, timeoutCfg)]

\* Mutant of acquire: the admission test lets one waiter too many in.
acquire_offbyone(s, a) ==
    LET k == s.acqs[a].key IN
    IF s.acqs[a].rest = <<>> /\ s.acqs[a].fn = NotAFunction
    THEN Throw(s, "Error")
    ELSE IF s.queue[k] = NoEntry
    THEN PushFrames([s EXCEPT !.queue[k] = <<>>], <<Frame("Exec", a, TRUE, "none")>>)
    ELSE IF Len(s.queue[k]) > maxPending
    THEN PushFrames(s, <<Frame("Done", a, FALSE, "TooMany")>>)
    ELSE [s EXCEPT !.queue[k] = Append(@, a),
                   !.acqs[a].timer = OrElse(s.acqs[a].opt, timeoutCfg)]

\* Lines 34-36 and 111-128: the check of the task and the three-way branch at
\* the end of acquire.  The task of an acquisition that has keys left to
\* acquire is the function getFn built, whatever the user passed.
acquire(s, a) ==
    LET k == s.acqs[a].key IN
    IF s.acqs[a].rest = <<>> /\ s.acqs[a].fn = NotAFunction
    THEN Throw(s, "Error")
    ELSE IF s.queue[k] = NoEntry
    THEN PushFrames([s EXCEPT !.queue[k] = <<>>], <<Frame("Exec", a, TRUE, "none")>>)
    ELSE IF Len(s.queue[k]) >= maxPending
    THEN PushFrames(s, <<Frame("Done", a, FALSE, "TooMany")>>)
    ELSE [s EXCEPT !.queue[k] = Append(@, a),
                   !.acqs[a].timer = OrElse(s.acqs[a].opt, timeoutCfg)]

\* Lines 150-154: the task body getFn builds for every key of a batch but
\* the last: it calls this.acquire(key, fn, cb, opts) with cb the task
\* callback exec handed to it.
getFn(s, a) ==
    LET r == s.acqs[a]
        c == Len(s.acqs) + 1
        t == [s EXCEPT !.acqs = Append(@, NewAcq(Head(r.rest), Tail(r.rest), r.fn,
                                                 "inner", a, r.opt))]
    IN PushFrames(t, <<Frame("Acquire", c, TRUE, "none")>>)

\* Mutant of exec: the timer of the waiter is not cleared when it starts.
exec_keep_timer(s, a, locked) ==
    LET r == s.acqs[a] IN
    IF r.resolved
    THEN PushFrames(s, <<Frame("Done", a, locked, "none")>>)
    ELSE LET t == [s EXCEPT !.acqs[a].started = @ + 1,
                            !.startLog[r.key] = Append(@, a)]
             u == [t EXCEPT !.acqs[a].running = TRUE]
         IN CASE r.rest # <<>>       -> getFn(u, a)
              [] r.fn = "cb_sync"    -> PushFrames(u, <<Frame("TaskCb", a, locked, "ok")>>)
              [] r.fn = "cb_throw"   -> Throw(u, "TaskError")
              [] OTHER               -> u

\* Lines 81-109.
exec(s, a, locked) ==
    LET r == s.acqs[a] IN
    IF r.resolved
    THEN PushFrames(s, <<Frame("Done", a, locked, "none")>>)
    ELSE LET t == [s EXCEPT !.acqs[a].timer = 0,
                            !.acqs[a].started = @ + 1,
                            !.startLog[r.key] = Append(@, a)]
             u == [t EXCEPT !.acqs[a].running = TRUE]
         IN CASE r.rest # <<>>       -> getFn(u, a)
              [] r.fn = "cb_sync"    -> PushFrames(u, <<Frame("TaskCb", a, locked, "ok")>>)
              [] r.fn = "cb_throw"   -> Throw(u, "TaskError")   \* nothing catches it
              [] OTHER               -> u

\* Mutant of taskCallback: `called` is not tested.
taskCallback_unguarded(s, a, locked, err) ==
    PushFrames([s EXCEPT !.acqs[a].called = TRUE, !.acqs[a].running = FALSE,
                         !.acqs[a].signals = @ + 1],
               <<Frame("Done", a, locked, err)>>)

\* Lines 94-99: the completion callback exec hands to a callback-style task.
taskCallback(s, a, locked, err) ==
    IF ~ s.acqs[a].called
    THEN PushFrames([s EXCEPT !.acqs[a].called = TRUE, !.acqs[a].running = FALSE,
                              !.acqs[a].signals = @ + 1],
                    <<Frame("Done", a, locked, err)>>)
    ELSE [s EXCEPT !.acqs[a].signals = @ + 1]

\* Mutant of done: the next waiter is started before the outcome is delivered.
done_next_first(s, a, locked, err) ==
    LET r == s.acqs[a]
        k == r.key
    IN IF locked /\ s.queue[k] = NoEntry
       THEN Throw(s, "TypeError")
       ELSE LET t == IF locked /\ s.queue[k] = <<>>
                     THEN LogHandoff([s EXCEPT !.queue[k] = NoEntry], a, "removed")
                     ELSE s
                u == [t EXCEPT !.acqs[a].outs = Append(@, err), !.acqs[a].resolved = TRUE]
            IN IF r.resolved
               THEN PushFrames(t, <<Frame("Next", a, locked, "none")>>)
               ELSE CASE r.sink = "cb" ->
                           PushFrames(u, <<Frame("Next", a, locked, "none"),
                                           Frame("User", a, locked, err),
                                           Frame("Resolved", a, FALSE, "none")>>)
                      [] r.sink = "inner" ->
                           PushFrames(u, <<Frame("Next", a, locked, "none"),
                                           Frame("TaskCb", r.parent, TRUE, err)>>)
                      [] OTHER ->
                           PushFrames(u, <<Frame("Next", a, locked, "none")>>)

\* Lines 52-69: done up to and including the call of the completion channel.
done(s, a, locked, err) ==
    LET r == s.acqs[a]
        k == r.key
    IN IF locked /\ s.queue[k] = NoEntry
       THEN Throw(s, "TypeError")   \* this._queue[key] is undefined: reading .length throws
       ELSE LET t == IF locked /\ s.queue[k] = <<>>
                     THEN LogHandoff([s EXCEPT !.queue[k] = NoEntry], a, "removed")
                     ELSE s
                u == [t EXCEPT !.acqs[a].outs = Append(@, err)]
            IN IF r.resolved
               THEN PushFrames(t, <<Frame("Next", a, locked, "none")>>)
               ELSE CASE r.sink = "cb" ->
                           PushFrames(u, <<Frame("User", a, locked, err),
                                           Frame("Resolved", a, locked, "none")>>)
                      [] r.sink = "inner" ->
                           PushFrames(u, <<Frame("TaskCb", r.parent, TRUE, err),
                                           Frame("Resolved", a, locked, "none")>>)
                      [] OTHER ->
                           PushFrames(u, <<Frame("Resolved", a, locked, "none")>>)

\* Line 70.
doneResolved(s, a, locked) ==
    PushFrames([s EXCEPT !.acqs[a].resolved = TRUE], <<Frame("Next", a, locked, "none")>>)

\* Lines 73-78: run the next waiter.
doneNext(s, a, locked) ==
    LET k == s.acqs[a].key IN
    IF locked /\ s.queue[k] # NoEntry
    THEN IF s.queue[k] = <<>>
         THEN Throw(s, "ShiftTypeError")   \* shift() of an empty array is undefined: calling it throws
         ELSE PushFrames(LogHandoff([s EXCEPT !.queue[k] = Tail(@)], a, "next"),
                         <<Frame("Exec", Head(s.queue[k]), TRUE, "none")>>)
    ELSE s

\* Runs the manager's code until it returns to the event loop, throws, or
\* calls a user completion callback.
RECURSIVE Run(_)
Run(s) ==
    IF s.stack = <<>> \/ Head(s.stack).op = "User"
    THEN s
    ELSE LET f == Head(s.stack)
             t == [s EXCEPT !.stack = Tail(@)]
         IN CASE f.op = "Acquire"  -> Run(acquire(t, f.a))
              [] f.op = "Exec"     -> Run(exec(t, f.a, f.locked))
              [] f.op = "TaskCb"   -> Run(taskCallback(t, f.a, f.locked, f.err))
              [] f.op = "Done"     -> Run(done(t, f.a, f.locked, f.err))
              [] f.op = "Resolved" -> Run(doneResolved(t, f.a, f.locked))
              [] f.op = "Next"     -> Run(doneNext(t, f.a, f.locked))

\* No key argument: undefined, for which !key holds as it does for "".
NoKey == ""

\* Lines 181-187.
isBusy(key) ==
    IF key = NoKey
    THEN \E k \in Keys : queue[k] # NoEntry
    ELSE queue[key] # NoEntry

Commit(s) ==
    /\ queue' = s.queue
    /\ acqs' = s.acqs
    /\ stack' = s.stack
    /\ thrown' = s.thrown
    /\ startLog' = s.startLog
    /\ handoffLog' = s.handoffLog
    /\ UNCHANGED <<timeoutCfg, maxPending>>

\* The event loop is idle: no manager or user code is on the stack.
Idle == stack = <<>> /\ thrown = "none"

\* A user completion callback is executing.
InUser == stack # <<>> /\ thrown = "none"

RECURSIVE SumRest(_, _)
SumRest(as, i) ==
    IF i > Len(as) THEN 0
    ELSE (IF as[i].started = 0 THEN Len(as[i].rest) ELSE 0) + SumRest(as, i + 1)

\* Acquire calls made so far plus those the chains already begun will make.
Budget == Len(acqs) + SumRest(acqs, 1)

\* A call of acquire(key, fn, cb?, opts?) with a single key (lines 29-133).
Call(max, key, rest, fn, sink, opt) ==
    /\ Budget + 1 + Len(rest) <= max
    /\ LET n == Len(acqs) + 1
           s == [St EXCEPT !.acqs = Append(@, NewAcq(key, rest, fn, sink, 0, opt))]
       IN Commit(Run(PushFrames(s, <<Frame("Acquire", n, TRUE, "none")>>)))

AcquireCall ==
    /\ Idle
    /\ \E key \in Keys, fn \in TaskKinds, sink \in UserSinks, opt \in TimeoutOpts :
          Call(MaxAcq, key, <<>>, fn, sink, opt)

BatchKeys == {<<x, y>> : x \in Keys, y \in Keys}

\* Lines 144-174: acquire with a key list. The chain fnx is entered by
\* acquiring keys[0] with the caller's completion channel.
AcquireBatchCall ==
    /\ Idle
    /\ \E keys \in BatchKeys, fn \in TaskKinds, sink \in UserSinks, opt \in TimeoutOpts :
          Call(MaxAcq, Head(keys), Tail(keys), fn, sink, opt)

\* Timers armed earlier with a delay no longer than a's fire before a's.
TimerDue(a) ==
    /\ acqs[a].timer # 0
    /\ \A b \in Ids : (b < a /\ acqs[b].timer # 0) => acqs[b].timer > acqs[a].timer

\* Lines 123-126: the timer callback.
TimerFire ==
    /\ Idle
    /\ \E a \in Ids :
          /\ TimerDue(a)
          /\ LET s == [St EXCEPT !.acqs[a].timer = 0]
             IN Commit(Run(PushFrames(s, <<Frame("Done", a, FALSE, "TimedOut")>>)))

UserTaskRunning(a) == acqs[a].running /\ acqs[a].rest = <<>> /\ acqs[a].key # NoKey

\* A running callback-style task invokes its completion callback (lines 94-99).
TaskComplete ==
    /\ Idle
    /\ \E a \in Ids :
          /\ UserTaskRunning(a)
          /\ acqs[a].fn = "cb_async"
          /\ Commit(Run(PushFrames(St, <<Frame("TaskCb", a, TRUE, "ok")>>)))

\* The promise of a value-style task settles: nodeify calls done (lines 102-107).
ValueTaskSettles ==
    /\ Idle
    /\ \E a \in Ids :
          /\ UserTaskRunning(a)
          /\ acqs[a].fn \in {"val", "val_throw"}
          /\ LET s == [St EXCEPT !.acqs[a].running = FALSE]
                 err == IF acqs[a].fn = "val" THEN "ok" ELSE "TaskError"
             IN Commit(Run(PushFrames(s, <<Frame("Done", a, TRUE, err)>>)))

\* The executing completion callback calls acquire.
UserAcquire ==
    /\ InUser
    /\ \E key \in Keys, fn \in TaskKinds, sink \in UserSinks, opt \in TimeoutOpts :
          Call(MaxAcq, key, <<>>, fn, sink, opt)

\* The executing completion callback calls acquire with a key list.
UserAcquireBatch ==
    /\ InUser
    /\ \E keys \in BatchKeys, fn \in TaskKinds, sink \in UserSinks, opt \in TimeoutOpts :
          Call(MaxAcq, Head(keys), Tail(keys), fn, sink, opt)

\* The executing completion callback completes a running callback-style task.
UserComplete ==
    /\ InUser
    /\ \E a \in Ids :
          /\ UserTaskRunning(a)
          /\ acqs[a].fn = "cb_async"
          /\ Commit(Run(PushFrames(St, <<Frame("TaskCb", a, TRUE, "ok")>>)))

\* The executing completion callback returns: done goes on at line 70.
UserReturn ==
    /\ InUser
    /\ Commit(Run([St EXCEPT !.stack = Tail(@)]))

\* Lines 16-19: the constructor.
Init ==
    /\ queue = [k \in Keys |-> NoEntry]
    /\ \E t \in CtorTimeoutOpts : timeoutCfg = OrElse(t, DEFAULT_TIMEOUT)
    /\ \E m \in CtorMaxPendingOpts : maxPending = OrElse(m, DEFAULT_MAX_PENDING)
    /\ acqs = <<>>
    /\ stack = <<>>
    /\ thrown = "none"
    /\ startLog = [k \in Keys |-> <<>>]
    /\ handoffLog = <<>>

Next ==
    \/ AcquireCall
    \/ AcquireBatchCall
    \/ TimerFire
    \/ TaskComplete
    \/ ValueTaskSettles
    \/ UserAcquire
    \/ UserAcquireBatch
    \/ UserComplete
    \/ UserReturn

Spec == Init /\ [][Next]_vars

----------------------------------------------------------------------------
\* The manager used with batches and waiters behind them: MaxBatchAcq acquire
\* calls, no timeouts and the default pending limit.

InitBatch ==
    /\ Init
    /\ timeoutCfg = DEFAULT_TIMEOUT
    /\ maxPending = DEFAULT_MAX_PENDING

BatchCall ==
    /\ Idle
    /\ \E keys \in BatchKeys, fn \in TaskKinds, sink \in UserSinks :
          Call(MaxBatchAcq, Head(keys), Tail(keys), fn, sink, Absent)

WaiterCall ==
    /\ Idle
    /\ \E key \in Keys, fn \in TaskKinds, sink \in UserSinks :
          Call(MaxBatchAcq, key, <<>>, fn, sink, Absent)

CallbackCall ==
    /\ InUser
    /\ \E key \in Keys, fn \in TaskKinds, sink \in UserSinks :
          Call(MaxBatchAcq, key, <<>>, fn, sink, Absent)

CallbackBatchCall ==
    /\ InUser
    /\ \E keys \in BatchKeys, fn \in TaskKinds, sink \in UserSinks :
          Call(MaxBatchAcq, Head(keys), Tail(keys), fn, sink, Absent)

NextBatch ==
    \/ BatchCall
    \/ WaiterCall
    \/ TaskComplete
    \/ ValueTaskSettles
    \/ CallbackCall
    \/ CallbackBatchCall
    \/ UserComplete
    \/ UserReturn

SpecBatch == InitBatch /\ [][NextBatch]_vars

----------------------------------------------------------------------------
\* The manager used with tasks that fail or signal completion twice, with
\* arguments that are not functions and with empty key lists: MaxTaskAcq
\* acquire calls, no timeouts and the default pending limit.  A key list of
\* length one behaves as its single key does (lines 150-162).

TaskCall ==
    /\ Idle
    /\ \E key \in Keys, fn \in AllTasks, sink \in UserSinks :
          Call(MaxTaskAcq, key, <<>>, fn, sink, Absent)

TaskBatchCall ==
    /\ Idle
    /\ \E keys \in BatchKeys, fn \in AllTasks, sink \in UserSinks :
          Call(MaxTaskAcq, Head(keys), Tail(keys), fn, sink, Absent)

TaskCallbackCall ==
    /\ InUser
    /\ \E key \in Keys, fn \in AllTasks, sink \in UserSinks :
          Call(MaxTaskAcq, key, <<>>, fn, sink, Absent)

TaskCallbackBatchCall ==
    /\ InUser
    /\ \E keys \in BatchKeys, fn \in AllTasks, sink \in UserSinks :
          Call(MaxTaskAcq, Head(keys), Tail(keys), fn, sink, Absent)

\* Lines 161-171 for an empty key list: fnx is the user's fn, and it is called
\* with the caller's completion callback (or the callback that settles the
\* deferred) as its argument.  No key is acquired and no code of acquire runs:
\* a task that throws throws out of the call, the return value of a
\* value-style task is dropped.
acquireBatchEmpty(s, n) ==
    LET r == s.acqs[n]
        t == [s EXCEPT !.acqs[n].started = 1, !.acqs[n].running = TRUE]
        u == [t EXCEPT !.acqs[n].running = FALSE, !.acqs[n].outs = Append(@, "ok")]
    IN CASE r.fn = NotAFunction  -> Throw(s, "CallTypeError")   \* fnx is not a function
         [] r.fn \in FailingTasks -> Throw(t, "TaskError")
         [] r.fn = "cb_sync"     ->
               IF r.sink = "cb" THEN PushFrames(u, <<Frame("User", n, FALSE, "ok")>>) ELSE u
         [] OTHER                -> t

\* acquire([], fn, cb?, opts?).
EmptyBatchCall ==
    /\ Idle
    /\ Budget + 1 <= MaxTaskAcq
    /\ \E fn \in AllTasks, sink \in UserSinks :
          LET n == Len(acqs) + 1
              s == [St EXCEPT !.acqs = Append(@, NewAcq(NoKey, <<>>, fn, sink, 0, Absent))]
          IN Commit(Run(acquireBatchEmpty(s, n)))

\* The task of an empty key list invokes the callback it was given.
DirectTaskComplete ==
    /\ Idle
    /\ \E a \in Ids :
          /\ acqs[a].key = NoKey
          /\ acqs[a].running
          /\ acqs[a].fn = "cb_async"
          /\ LET s == [St EXCEPT !.acqs[a].running = FALSE, !.acqs[a].outs = Append(@, "ok")]
             IN Commit(IF acqs[a].sink = "cb"
                       THEN PushFrames(s, <<Frame("User", a, FALSE, "ok")>>)
                       ELSE s)

\* A callback-style task that has signalled completion invokes its completion
\* callback again (lines 94-99), from the event loop or while a completion
\* callback is executing.
RepeatSignal ==
    /\ thrown = "none"
    /\ \E a \in Ids :
          /\ acqs[a].fn \in CbTasks
          /\ acqs[a].rest = <<>>
          /\ acqs[a].key # NoKey
          /\ acqs[a].called
          /\ acqs[a].signals < MaxSignals
          /\ Commit(Run(PushFrames(St, <<Frame("TaskCb", a, TRUE, "ok")>>)))

NextTasks ==
    \/ TaskCall
    \/ TaskBatchCall
    \/ EmptyBatchCall
    \/ TaskCallbackCall
    \/ TaskCallbackBatchCall
    \/ TaskComplete
    \/ ValueTaskSettles
    \/ DirectTaskComplete
    \/ RepeatSignal
    \/ UserComplete
    \/ UserReturn

SpecTasks == InitBatch /\ [][NextTasks]_vars

----------------------------------------------------------------------------
\* The manager used with per-call timeouts, a timeout of 0 included:
\* MaxTimeoutAcq single-key acquire calls and the default pending limit.

CallTimeoutOpts == {Absent, Num(0), Num(10)}

InitTimeout ==
    /\ Init
    /\ maxPending = DEFAULT_MAX_PENDING

TimeoutCall ==
    /\ Idle
    /\ \E key \in Keys, fn \in TaskKinds, sink \in UserSinks, opt \in CallTimeoutOpts :
          Call(MaxTimeoutAcq, key, <<>>, fn, sink, opt)

TimeoutCallbackCall ==
    /\ InUser
    /\ \E key \in Keys, fn \in TaskKinds, sink \in UserSinks, opt \in CallTimeoutOpts :
          Call(MaxTimeoutAcq, key, <<>>, fn, sink, opt)

NextTimeout ==
    \/ TimeoutCall
    \/ TimeoutCallbackCall
    \/ TimerFire
    \/ TaskComplete
    \/ ValueTaskSettles
    \/ UserComplete
    \/ UserReturn

SpecTimeout == InitTimeout /\ [][NextTimeout]_vars

----------------------------------------------------------------------------
\* Task bodies acquired under key k that were invoked and have not yet
\* signalled completion.
Executing(k) == {a \in Ids : acqs[a].key = k /\ acqs[a].running}

\* C1: mutual exclusion - for every key at most one task body acquired under
\* it has been started and has not yet signalled completion, in every state
\* reached by acquire calls, task completions and timer firings, including
\* acquire calls made from inside a completion callback.
C1_MutualExclusion == \A k \in Keys : Cardinality(Executing(k)) <= 1

\* The acquisitions on key k, which are numbered in the order of their
\* acquire calls, appear in seq in call order.
InCallOrder(seq) == \A i, j \in 1..Len(seq) : i < j => seq[i] < seq[j]

\* A waiter whose timer fired while it was queued and which was then skipped.
SkippedGhost(a) ==
    /\ acqs[a].outs = <<"TimedOut">>
    /\ acqs[a].started = 0
    /\ \A k \in Keys : queue[k] = NoEntry \/ \A i \in 1..Len(queue[k]) : queue[k][i] # a

C3_AtMostOnceDelivery ==
    \A a \in Ids : acqs[a].sink \in UserSinks => Len(acqs[a].outs) <= 1

\* The first outcome delivered to acquisition a is the timed-out error.
TimedOut(a) == acqs[a].outs # <<>> /\ Head(acqs[a].outs) = "TimedOut"

\* An acquisition made by a single-key acquire call of the user.
Single(a) == ~ InChain(acqs[a])

\* C4: timeout skip - a waiter whose timer fired while it was queued has
\* received the timed-out error and its task body is never invoked at any
\* later point.
C4_TimeoutSkip == \A a \in Ids : (Single(a) /\ TimedOut(a)) => acqs[a].started = 0

\* Acquisition a is in no wait queue.
NotQueued(a) ==
    \A k \in Keys : queue[k] = NoEntry \/ \A i \in 1..Len(queue[k]) : queue[k][i] # a

\* This step is an acquire call of the user on a key whose wait queue is full.
CallOnFullKey ==
    /\ Len(acqs') > Len(acqs)
    /\ acqs'[Len(acqs) + 1].sink \in UserSinks
    /\ queue[acqs'[Len(acqs) + 1].key] # NoEntry
    /\ Len(queue[acqs'[Len(acqs) + 1].key]) >= maxPending

\* What the call has done when it delivers the error: nothing but create and
\* reject the new acquisition.
RejectedInCall ==
    LET n == Len(acqs) + 1 IN
    /\ Len(acqs') = n
    /\ acqs'[n].outs = <<"TooMany">>
    /\ acqs'[n].started = 0
    /\ acqs'[n].timer = 0
    /\ queue' = queue
    /\ startLog' = startLog
    /\ \A a \in Ids : acqs'[a] = acqs[a]

\* The first outcome of acquisition a is the too-many-pending-tasks error.
TooMany(a) == acqs[a].outs # <<>> /\ Head(acqs[a].outs) = "TooMany"

\* Acquisition a was rejected by the admission test of its own acquire call,
\* rather than handed the error of the next key of its batch.
Rejected(a) == TooMany(a) /\ ~ \E c \in Ids : acqs[c].parent = a /\ TooMany(c)

\* C5: admission limit - an acquire on a key whose wait queue holds
\* maxPending waiters or more delivers the too-many-pending-tasks error
\* within the call, appends no waiter, runs no task body, arms no timer and
\* leaves the whole lock table unchanged; the rejected acquisition is never
\* queued or run afterwards.
C5_AdmissionLimit ==
    /\ [][CallOnFullKey => RejectedInCall]_vars
    /\ [](\A a \in Ids : Rejected(a) =>
              (acqs[a].started = 0 /\ acqs[a].timer = 0 /\ NotQueued(a)))

\* C5 witness: an acquire call was rejected on a key whose queue is full.
C5_Witness ==
    \E a \in Ids :
        /\ acqs[a].outs = <<"TooMany">>
        /\ acqs[a].sink \in UserSinks
        /\ queue[acqs[a].key] # NoEntry
        /\ Len(queue[acqs[a].key]) >= maxPending

\* C6: lock-table invariant seen through isBusy - a key has a table entry
\* iff some acquisition on it is the current holder (started, completion not
\* yet signalled) or is queued; isBusy without a key is true iff some key has
\* an entry.
C6_BusyIffHeldOrQueued ==
    /\ \A k \in Keys :
          isBusy(k) <=> (Executing(k) # {} \/ \E a \in Ids : acqs[a].key = k /\ ~ NotQueued(a))
    /\ isBusy(NoKey) <=> \E k \in Keys : queue[k] # NoEntry

\* The acquisitions of the batch chain that enclose acquisition a.
RECURSIVE Ancestors(_)
Ancestors(a) ==
    IF acqs[a].parent = 0 THEN {} ELSE {acqs[a].parent} \cup Ancestors(acqs[a].parent)

\* Acquisition c carries the user's task of a batch over several keys.
BatchTask(c) == acqs[c].parent # 0 /\ acqs[c].rest = <<>>

\* The keys of the chain that ends in acquisition c are pairwise distinct.
DistinctKeys(c) ==
    \A p, q \in Ancestors(c) \cup {c} : p # q => acqs[p].key # acqs[q].key

\* C7: batch acquisition holds all keys - for a list of distinct keys, each
\* key of the list is requested only after the key before it was acquired by the batch, and
\* the user's task body executes only while the batch is the current holder
\* of every key of the list.
C7_BatchHoldsAllKeys ==
    \A c \in Ids :
        /\ acqs[c].parent # 0 => acqs[acqs[c].parent].started = 1
        /\ (BatchTask(c) /\ DistinctKeys(c) /\ acqs[c].running) =>
              \A p \in Ancestors(c) : acqs[p].running /\ isBusy(acqs[p].key)

\* The acquisitions of the batch chain that ends in acquisition c.
Chain(c) == Ancestors(c) \cup {c}

\* The task of the batch whose last acquisition is c has run and completed.
BatchCompleted(c) == BatchTask(c) /\ acqs[c].started = 1 /\ acqs[c].outs = <<"ok">>

\* Pairs <<i, j>> of hand-offs of one completed batch: i is the hand-off of a
\* key, j a hand-off of a key that encloses it.
NestedHandoffs ==
    {ij \in (1..Len(handoffLog)) \X (1..Len(handoffLog)) :
        \E c \in Ids :
            /\ BatchCompleted(c)
            /\ handoffLog[ij[1]].a \in Chain(c)
            /\ handoffLog[ij[2]].a \in Ancestors(handoffLog[ij[1]].a)}

Failed(x) == InChain(acqs[x]) /\ acqs[x].outs # <<>> /\ Head(acqs[x].outs) \in {"TimedOut", "TooMany"}

\* Acquisition p has handed its key off.
HandedOff(p) == \E i \in 1..Len(handoffLog) : handoffLog[i].a = p

\* C9: batch failure propagation - when the acquisition of a key of a batch
\* fails by timeout or by the pending limit, the batch caller has received
\* exactly that error, the user's task body is never run, and once the step
\* is over every outer key the batch held has been handed off.
C9_BatchFailure ==
    \A x \in Ids : Failed(x) =>
        /\ \A p \in Ancestors(x) :
              /\ acqs[p].outs # <<>> /\ Head(acqs[p].outs) = Head(acqs[x].outs)
              /\ ~ acqs[p].running
              /\ Idle => HandedOff(p)
        /\ \A c \in Ids : (BatchTask(c) /\ x \in Chain(c)) => acqs[c].started = 0

\* Nothing is left to happen: no code of the manager or of a callback is on
\* the stack, every started task body has signalled completion and no timer
\* is armed.
Quiescent ==
    /\ stack = <<>>
    /\ \A a \in Ids : ~ acqs[a].running /\ acqs[a].timer = 0

\* C10: progress - once every started task body has signalled completion,
\* every acquisition has received an outcome (no queued waiter is left
\* behind) and the lock table is empty.
C10_Progress ==
    Quiescent =>
        /\ \A a \in Ids : acqs[a].outs # <<>>
        /\ \A k \in Keys : queue[k] = NoEntry

\* This step is an acquire call of the user whose task is not a function.
NotAFunctionCall ==
    /\ Len(acqs') > Len(acqs)
    /\ acqs'[Len(acqs) + 1].sink \in UserSinks
    /\ acqs'[Len(acqs) + 1].fn = NotAFunction

\* C11: a non-callable task is rejected up front - an acquire call (single
\* key or key list of any length) whose task is not a function raises its
\* error synchronously from that call, enqueues nothing and leaves the lock
\* table exactly as it was before the call.
C11_NotAFunctionRejected ==
    [][NotAFunctionCall => (thrown' # "none" /\ queue' = queue)]_vars

\* C12: an empty key list is rejected - a batch acquire called with an empty
\* key list reports a precondition error synchronously and never runs the
\* task body.
C12_EmptyKeyListRejected ==
    \A a \in Ids : acqs[a].key = NoKey => (thrown # "none" /\ acqs[a].started = 0)

\* The value-style task of acquisition a threw and nodeify has called done.
ThrowSettled(a) ==
    acqs[a].fn = "val_throw" /\ acqs[a].started > 0 /\ ~ acqs[a].running

\* Some other acquisition is executing under the key of acquisition a.
KeyPassedOn(a) == \E b \in Ids \ {a} : acqs[b].key = acqs[a].key /\ acqs[b].running

\* C13: a value-style task that throws synchronously has the thrown error
\* delivered as the acquisition's outcome through the completion channel,
\* nothing is raised, and the throw counts as completion: the key's next
\* waiter is started or the key's table entry is removed.
C13_ValueTaskThrow ==
    \A a \in Ids : (acqs[a].key # NoKey /\ ThrowSettled(a)) =>
        /\ acqs[a].outs = <<"TaskError">>
        /\ Idle => (queue[acqs[a].key] = NoEntry \/ KeyPassedOn(a))

\* C14: task errors of callback-style tasks reach the completion channel -
\* when a callback-style task body throws instead of invoking its completion
\* callback, the error is delivered to the caller as the acquisition's single
\* outcome and the acquisition counts as completed, so the key is released.
C14_CallbackTaskThrow ==
    \A a \in Ids : (acqs[a].key # NoKey /\ acqs[a].fn = "cb_throw" /\ acqs[a].started > 0) =>
        /\ acqs[a].outs = <<"TaskError">>
        /\ ~ acqs[a].running
        /\ thrown = "none"

\* Acquisition a is queued and nothing has happened to it since its call.
FreshWaiter(a) == ~ NotQueued(a) /\ acqs[a].outs = <<>> /\ acqs[a].started = 0

\* The delay the claim gives the timer of a waiter: the per-call value alone
\* when one is supplied, else the manager's default.
ClaimedDelay(a) == IF acqs[a].opt.has THEN acqs[a].opt.n ELSE timeoutCfg

\* C15: per-call timeout override - the timer of a queued waiter is armed
\* according to options.timeout alone when it is supplied (0 means no timer,
\* whatever the manager's default), and according to the manager's default
\* when it is not.
C15_PerCallTimeout ==
    \A a \in Ids : FreshWaiter(a) => acqs[a].timer = ClaimedDelay(a)

\* The number of timed-out errors among the outcomes outs.
NumTimedOut(outs) == Cardinality({i \in 1..Len(outs) : outs[i] = "TimedOut"})

\* In this step no acquisition whose task body has been started receives the
\* timed-out error.  (The outcome of an acquisition that encloses other keys
\* of a batch is the outcome of the acquisition of the next key, which may be
\* that one's timed-out error: it is not counted here.)
NoTimeoutAfterStart ==
    \A a \in Ids : (acqs[a].rest = <<>> /\ acqs[a].started > 0) =>
        NumTimedOut(acqs'[a].outs) = NumTimedOut(acqs[a].outs)

\* In this step a timer is armed only for an acquisition made in the step.
ArmedOnlyInCall ==
    \A a \in Ids : acqs'[a].timer # 0 => acqs[a].timer = acqs'[a].timer

\* C16: a timeout only affects queued waiters - an acquisition whose task
\* body has been started never receives the timed-out error, its timer is no
\* longer armed from the moment it starts, and an acquisition that starts
\* immediately on a free key never has a timer armed: an armed timer belongs
\* to a queued acquisition that has not started, and no timer is armed after
\* the acquire call.
C16_TimeoutOnlyWhileQueued ==
    /\ [](\A a \in Ids : acqs[a].timer # 0 => (acqs[a].started = 0 /\ ~ NotQueued(a)))
    /\ [][NoTimeoutAfterStart /\ ArmedOnlyInCall]_vars

\* C16 witness: a waiter with an effective timeout was queued behind a holder,
\* was started by queue advancement before its timer fired, and completed.
C16_Witness ==
    \E a \in Ids :
        /\ OrElse(acqs[a].opt, timeoutCfg) # 0
        /\ Len(startLog[acqs[a].key]) >= 2
        /\ startLog[acqs[a].key][2] = a
        /\ acqs[a].timer = 0
        /\ acqs[a].outs = <<"ok">>

\* The positions of the timed-out waiters at the head of the queue of key k.
LeadingGhosts(k) ==
    {i \in 1..Len(queue[k]) : \A j \in 1..i : TimedOut(queue[k][j])}

\* In this step the holder h of key k signals completion and its completion
\* step runs to its end (or to an exception) without being interrupted by a
\* completion callback.
CompletionStep(h, k) ==
    /\ acqs[h].key = k
    /\ acqs[h].running
    /\ ~ acqs'[h].running
    /\ queue[k] # NoEntry
    /\ stack' = stack \/ thrown' # "none"

\* Acquisition a is in no wait queue after the step.
NotQueuedAfter(a) ==
    \A k \in Keys : queue'[k] = NoEntry \/ \A i \in 1..Len(queue'[k]) : queue'[k][i] # a

\* C17: ghost chain advancement - when a holder completes and the head of the
\* key's queue consists of timed-out waiters, that completion step dequeues
\* every such ghost without invoking its task body or delivering a second
\* outcome, and ends with the first live waiter started or, if none remains,
\* with the key's table entry removed.
C17_GhostChain ==
    [][\A h \in Ids : \A k \in Keys :
          (CompletionStep(h, k) /\ LeadingGhosts(k) # {}) =>
              /\ thrown' = "none"
              /\ \A i \in LeadingGhosts(k) :
                    /\ NotQueuedAfter(queue[k][i])
                    /\ acqs'[queue[k][i]].started = 0
                    /\ acqs'[queue[k][i]].outs = acqs[queue[k][i]].outs
              /\ IF Cardinality(LeadingGhosts(k)) < Len(queue[k])
                 THEN /\ acqs'[queue[k][Cardinality(LeadingGhosts(k)) + 1]].started = 1
                      /\ NotQueuedAfter(queue[k][Cardinality(LeadingGhosts(k)) + 1])
                 ELSE queue'[k] = NoEntry]_vars

\* Acquisition o is the outermost acquisition of a batch whose key list names
\* the key of o again, made with no effective timeout and admitted to the key.
DuplicateKeyBatch(o) ==
    /\ acqs[o].parent = 0
    /\ \E i \in 1..Len(acqs[o].rest) : acqs[o].rest[i] = acqs[o].key
    /\ OrElse(acqs[o].opt, timeoutCfg) = 0
    /\ ~ TooMany(o)

\* C18: duplicate keys in a batch self-deadlock - a batch over a list that
\* contains the same key twice, issued with no effective timeout, never starts
\* the user's task body and never delivers an outcome, and once the batch
\* holds the duplicated key the key keeps its table entry for ever.
C18_DuplicateKeyDeadlock ==
    \A o \in Ids : DuplicateKeyBatch(o) =>
        /\ acqs[o].outs = <<>>
        /\ \A c \in Ids : (BatchTask(c) /\ o \in Ancestors(c)) => acqs[c].started = 0
        /\ acqs[o].started > 0 => queue[acqs[o].key] # NoEntry

\* C19: queue advancement never dequeues from an empty queue - whenever a
\* holder's completion step finds a table entry for its key and goes on to
\* start the next waiter, the key's wait queue is non-empty, so shift() never
\* yields undefined, also when the completion callback delivered just before
\* has itself called acquire on the same key.
C19_NoEmptyDequeue == thrown # "ShiftTypeError"

\* In this step the callback-style task of acquisition a, which has signalled
\* completion before, invokes its completion callback again.
RepeatedSignal(a) ==
    /\ acqs[a].rest = <<>>
    /\ acqs[a].called
    /\ acqs'[a].signals > acqs[a].signals

\* C20: repeated completion signals are absorbed - if a callback-style task
\* invokes its completion callback more than once, only the first invocation
\* has any effect; later invocations deliver no outcome, dequeue no waiter
\* and remove no table entry.
C20_RepeatedSignalAbsorbed ==
    [][\A a \in Ids : RepeatedSignal(a) =>
          /\ acqs' = [acqs EXCEPT ![a].signals = @ + 1]
          /\ queue' = queue
          /\ startLog' = startLog
          /\ handoffLog' = handoffLog
          /\ stack' = stack
          /\ thrown' = thrown]_vars

\* C20 witness: a task signalled completion twice while two waiters were
\* queued on its key; one of them was started and the other is still queued.
C20_Witness ==
    \E a \in Ids :
        /\ acqs[a].signals = 2
        /\ acqs[a].outs = <<"ok">>
        /\ queue[acqs[a].key] # NoEntry
        /\ Len(queue[acqs[a].key]) = 1
        /\ Len(startLog[acqs[a].key]) = 2
        /\ startLog[acqs[a].key][1] = a

====
